---- MODULE Spec2Model ----
(***************************************************************************)
(* KisanDost / FarmGuide: the search tool, the agent query runner and the  *)
(* demo pipeline (src/agent.py, src/main.py).                               *)
(*                                                                         *)
(* Python str values are TLA+ strings; Python lists are sequences; a dict  *)
(* or an object is a function from the keys (attributes) it has to their   *)
(* values, so that a missing key is a key outside the DOMAIN.               *)
(***************************************************************************)
EXTENDS Integers, Sequences, FiniteSets, TLC

VARIABLES
    \* ---- search tool (src/agent.py:17-53)
    lastCall,       \* the last web_search_tool_fn call: query, provider outcome, result
    nToolCalls,     \* number of web_search_tool_fn calls so far
    nProviderCalls, \* number of web_search.invoke calls so far
    \* ---- run_query over one stream (src/agent.py:101-133)
    stream,         \* what agent_executor.stream yields: snapshots, possibly a raise
    idx,            \* number of stream items consumed
    response_text,  \* run_query's local response_text
    rq,             \* run_query's position and return value
    \* ---- agent runs over the session memory (src/agent.py:63-80, 101-115)
    store,          \* per executor, the MemorySaver's history under the thread id
    runs,           \* per run_query call: position, executor, message context
    toolCallsMade,  \* tool invocations made by all runs so far
    \* ---- demo pipeline, step 4 (src/main.py:176-190)
    pipe,           \* position, the agent's answer and the normalised response_text
    tts_text,       \* tts_text_en / tts_text_ur / tts_text_sd
    translateCalls, \* the texts handed to translate_text, by target language
    ttsCalls        \* the text_to_speech calls made, in order

searchVars == <<lastCall, nToolCalls, nProviderCalls>>
runVars == <<stream, idx, response_text, rq>>
agentVars == <<store, runs, toolCallsMade>>
pipeVars == <<pipe, tts_text, translateCalls, ttsCalls>>

vars == <<searchVars, runVars, agentVars, pipeVars>>

\* dict.get(key, default)
Get(d, key, default) == IF key \in DOMAIN d THEN d[key] ELSE default

RECURSIVE Join(_, _)
\* sep.join(parts)
Join(sep, parts) ==
    IF parts = <<>> THEN ""
    ELSE IF Len(parts) = 1 THEN parts[1]
    ELSE parts[1] \o sep \o Join(sep, Tail(parts))

StartsWith(s, p) == Len(s) >= Len(p) /\ SubSeq(s, 1, Len(p)) = p

(***************************************************************************)
(* Search tool                                                             *)
(***************************************************************************)
MaxResults == 3
MaxSearchCalls == 2

Queries == {"", "urea dose wheat", "glyphosate safety"}

\* hits as the provider returns them: dicts that may lack a key
Hits == { [url |-> "u1", title |-> "t1", content |-> "c1"],
          [url |-> "u2", content |-> "c2"],
          [title |-> "t3"] }

HitSeqs == UNION { [1..n -> Hits] : n \in 0..MaxResults }

ErrMsgs == {"", "timeout", "401 Unauthorized"}

\* what web_search.invoke can do: raise, or return a str, a dict, a list or None
ProviderOutcomes ==
    [kind : {"raise"}, msg : ErrMsgs]
    \cup [kind : {"str"}, val : {"", "HTTPError('400 Bad Request')"}]
    \cup [kind : {"dict"}, val : {<<>>} \cup { [results |-> h] : h \in HitSeqs }]
    \cup [kind : {"list"}, val : HitSeqs]
    \cup [kind : {"none"}, val : {<<>>}]

SEARCH_ERROR_TAG == "[Search Error]: "
NO_RESULTS == "No relevant results found."

extract_block(item) ==
    "URL: " \o Get(item, "url", "") \o "\nTitle: " \o Get(item, "title", "")
        \o "\nContent: " \o Get(item, "content", "") \o "\n---\n"

extract_search_results(raw_results) ==
    Join("\n", [i \in 1..Len(raw_results) |-> extract_block(raw_results[i])])

\* the body of the try block after web_search.invoke returned res
format_search_response(res) ==
    IF res.kind = "str" THEN res.val
    ELSE LET raw == IF res.kind = "dict" THEN Get(res.val, "results", <<>>) ELSE <<>>
         IN  IF raw = <<>> THEN NO_RESULTS ELSE extract_search_results(raw)

search_error_handler_reraise(res) ==
    [ret |-> "", raised |-> TRUE]

\* the except clause
search_error_handler(res) ==
    [ret |-> SEARCH_ERROR_TAG \o res.msg, raised |-> FALSE]

web_search_tool_fn_skip_empty(query, res) ==
    IF query = ""
    THEN [query |-> query, res |-> res, sent |-> <<>>, ret |-> NO_RESULTS,
          raised |-> FALSE]
    ELSE LET out == IF res.kind = "raise" THEN search_error_handler(res)
                    ELSE [ret |-> format_search_response(res), raised |-> FALSE]
         IN  [query |-> query, res |-> res, sent |-> <<query>>,
              ret |-> out.ret, raised |-> out.raised]

\* web_search_tool_fn(query) when the provider's outcome is res; sent is what
\* web_search.invoke was called with
web_search_tool_fn(query, res) ==
    LET out == IF res.kind = "raise" THEN search_error_handler(res)
               ELSE [ret |-> format_search_response(res), raised |-> FALSE]
    IN  [query |-> query, res |-> res, sent |-> <<query>>,
         ret |-> out.ret, raised |-> out.raised]

NoCall == [query |-> "", res |-> [kind |-> "none", val |-> <<>>], sent |-> <<>>,
           ret |-> "", raised |-> FALSE]

SearchInit ==
    /\ lastCall = NoCall
    /\ nToolCalls = 0
    /\ nProviderCalls = 0

SearchCall ==
    /\ nToolCalls < MaxSearchCalls
    /\ \E q \in Queries, res \in ProviderOutcomes :
          LET c == web_search_tool_fn(q, res)
          IN  /\ lastCall' = c
              /\ nProviderCalls' = nProviderCalls + Len(c.sent)
    /\ nToolCalls' = nToolCalls + 1
    /\ UNCHANGED <<runVars, agentVars, pipeVars>>

(***************************************************************************)
(* run_query: the loop over agent_executor.stream and the final answer     *)
(***************************************************************************)
MaxStreamLen == 2

NO_ANSWER == "No answer produced by agent."
INIT_FAILED == "Agent initialization failed."

Obj(f) == [shape |-> "obj", f |-> f]
Dict(f) == [shape |-> "dict", f |-> f]

\* the message representations a snapshot can hold
Messages ==
    { Obj([role |-> "assistant", content |-> "answer A"]),
      Obj([role |-> "ai", content |-> "answer B"]),
      Obj([type |-> "ai", content |-> "answer C"]),
      Dict([role |-> "assistant", content |-> "answer D"]),
      Obj([type |-> "ai", content |-> ""]),
      Obj([type |-> "tool", content |-> "URL: u1"]),
      Obj([type |-> "human", content |-> "question"]) }

\* how many messages one transition of the agent appends to the snapshot
AppendSizes == {1, 2}

\* hasattr(obj, name): a dict has keys, not attributes
hasattr(m, name) == m.shape = "obj" /\ name \in DOMAIN m.f

\* the messages of the last snapshot yielded so far
LastMessages(st) ==
    LET snaps == { i \in 1..Len(st) : st[i].kind = "snap" }
    IN  IF snaps = {} THEN <<>>
        ELSE st[CHOOSE i \in snaps : \A j \in snaps : j <= i].messages

\* what the stream can yield next: an accumulated snapshot, a step without
\* messages, or an exception raised by the model call
StreamItems(st) ==
    { [kind |-> "snap", messages |-> LastMessages(st) \o new] :
        new \in UNION { [1..n -> Messages] : n \in AppendSizes } }
    \cup { [kind |-> "nomsgs", messages |-> <<>>] }
    \cup { [kind |-> "raise", messages |-> <<>>, msg |-> e] : e \in ErrMsgs }

\* `role in ("assistant", "ai") and content` for latest = messages[-1]
is_final_answer(latest) ==
    /\ hasattr(latest, "role")
    /\ latest.f["role"] \in {"assistant", "ai"}
    /\ hasattr(latest, "content")
    /\ latest.f["content"] # ""

\* one iteration of the for loop: the new value of response_text
loop_body(rt, step) ==
    IF step.messages = <<>> THEN rt
    ELSE LET latest == step.messages[Len(step.messages)]
         IN  IF is_final_answer(latest) THEN latest.f["content"] ELSE rt

final_text_unguarded(rt) == rt

\* `response_text or "No answer produced by agent."`
final_text(rt) == IF rt = "" THEN NO_ANSWER ELSE rt

run_error_handler_retry(rt, e) ==
    [pc |-> "loop", via |-> "", ret |-> "", raised |-> FALSE]

\* the except clause of run_query
run_error_handler(rt, e) ==
    [pc |-> "done", via |-> "except", ret |-> "Agent execution error: " \o e,
     raised |-> FALSE]

RunInit ==
    /\ stream = <<>>
    /\ idx = 0
    /\ response_text = ""
    /\ rq = [pc |-> "start", via |-> "", ret |-> "", raised |-> FALSE]

\* run_query is entered: the executor is given, or initialize_agent builds one or fails
RunQueryBegin ==
    /\ rq.pc = "start"
    /\ \E ok \in BOOLEAN :
          rq' = IF ok THEN [rq EXCEPT !.pc = "loop"]
                ELSE [pc |-> "done", via |-> "init", ret |-> INIT_FAILED,
                      raised |-> FALSE]
    /\ UNCHANGED <<stream, idx, response_text, searchVars, agentVars, pipeVars>>

\* the stream yields a step and the loop body runs on it
StreamYields ==
    /\ rq.pc = "loop"
    /\ Len(stream) < MaxStreamLen
    /\ \E item \in { x \in StreamItems(stream) : x.kind # "raise" } :
          /\ stream' = Append(stream, item)
          /\ response_text' = loop_body(response_text, item)
    /\ idx' = idx + 1
    /\ UNCHANGED <<rq, searchVars, agentVars, pipeVars>>

\* the stream raises (the model call failed): the except clause runs
StreamRaises ==
    /\ rq.pc = "loop"
    /\ Len(stream) < MaxStreamLen
    /\ \E item \in { x \in StreamItems(stream) : x.kind = "raise" } :
          /\ stream' = Append(stream, item)
          /\ rq' = run_error_handler(response_text, item.msg)
    /\ UNCHANGED <<idx, response_text, searchVars, agentVars, pipeVars>>

\* the stream is exhausted: run_query returns
StreamEnds ==
    /\ rq.pc = "loop"
    /\ rq' = [pc |-> "done", via |-> "return", ret |-> final_text(response_text),
              raised |-> FALSE]
    /\ UNCHANGED <<stream, idx, response_text, searchVars, agentVars, pipeVars>>

(***************************************************************************)
(* Agent runs: executors, the session memory and the reason-act loop       *)
(***************************************************************************)
MaxRuns == 2
MaxToolCalls == 5

THREAD_ID == "farmguide-session"

Runs == 1..MaxRuns

\* executor 0 is the one the caller built once and passes in; executor r is the
\* one run r builds for itself when it is called without an executor
SHARED == 0
Executors == {SHARED} \cup Runs

\* the provider outcomes a tool call of the loop can meet: hits, no hits, an error
ToolOutcomes ==
    { [kind |-> "dict", val |-> [results |-> <<[url |-> "u1", title |-> "t1", content |-> "c1"]>>]],
      [kind |-> "dict", val |-> [results |-> <<>>]],
      [kind |-> "raise", msg |-> "timeout"] }

Msg(r, type, content) == [by |-> r, type |-> type, content |-> content]

\* chat_completion(user_input): the system prompt and the user's turn
chat_completion(r) == << Msg(r, "system", "prompt"), Msg(r, "human", "question") >>

\* initialize_agent(): a new executor over a new, empty MemorySaver
initialize_agent(st, e) == [st EXCEPT ![e] = [k \in {THREAD_ID} |-> <<>>]]

\* the checkpointer writes the run's messages under the thread id
checkpoint(st, e, msgs) == [st EXCEPT ![e][THREAD_ID] = msgs]

IdleRunRecord ==
    [pc |-> "AWAITING_INPUT", exec |-> SHARED, start |-> <<>>, ctx |-> <<>>,
     steps |-> 0, after |-> {}]

AgentInit ==
    /\ store = [e \in Executors |-> [k \in {THREAD_ID} |-> <<>>]]
    /\ runs = [r \in Runs |-> IdleRunRecord]
    /\ toolCallsMade = 0

InProgress(r) == runs[r].pc \in {"THINKING", "TOOL_CALL_REQUESTED"}

\* run_query(input_message, agent_executor): the stream starts from the history
\* stored under the thread id, with the input appended
RunQueryWithExecutor(r) ==
    /\ runs[r].pc = "AWAITING_INPUT"
    /\ LET history == store[SHARED][THREAD_ID]
           ctx     == history \o chat_completion(r)
       IN  /\ runs' = [runs EXCEPT ![r] =
                  [pc |-> "THINKING", exec |-> SHARED, start |-> history, ctx |-> ctx,
                   steps |-> 0,
                   after |-> { q \in Runs : runs[q].pc = "ANSWERED" }]]
           /\ store' = checkpoint(store, SHARED, ctx)
    /\ UNCHANGED <<toolCallsMade, searchVars, runVars, pipeVars>>

\* run_query(input_message): agent_executor is None, so initialize_agent() runs first
RunQueryWithoutExecutor(r) ==
    /\ runs[r].pc = "AWAITING_INPUT"
    /\ LET fresh   == initialize_agent(store, r)
           history == fresh[r][THREAD_ID]
           ctx     == history \o chat_completion(r)
       IN  /\ runs' = [runs EXCEPT ![r] =
                  [pc |-> "THINKING", exec |-> r, start |-> history, ctx |-> ctx,
                   steps |-> 0,
                   after |-> { q \in Runs : runs[q].pc = "ANSWERED" }]]
           /\ store' = checkpoint(fresh, r, ctx)
    /\ UNCHANGED <<toolCallsMade, searchVars, runVars, pipeVars>>

\* the model is invoked on the run's messages and asks for the tool
ModelRequestsTool(r) ==
    /\ runs[r].pc = "THINKING"
    /\ toolCallsMade < MaxToolCalls
    /\ LET ctx == Append(runs[r].ctx, Msg(r, "ai", ""))
       IN  /\ runs' = [runs EXCEPT ![r].pc = "TOOL_CALL_REQUESTED", ![r].ctx = ctx,
                                   ![r].steps = @ + 1]
           /\ store' = checkpoint(store, runs[r].exec, ctx)
    /\ UNCHANGED <<toolCallsMade, searchVars, runVars, pipeVars>>

\* the tool runs and its text is appended as the tool-result message
ToolExecutes(r) ==
    /\ runs[r].pc = "TOOL_CALL_REQUESTED"
    /\ \E res \in ToolOutcomes :
          LET out == web_search_tool_fn("question", res)
              ctx == Append(runs[r].ctx, Msg(r, "tool", out.ret))
          IN  /\ runs' = [runs EXCEPT ![r].pc = "THINKING", ![r].ctx = ctx]
              /\ store' = checkpoint(store, runs[r].exec, ctx)
    /\ toolCallsMade' = toolCallsMade + 1
    /\ UNCHANGED <<searchVars, runVars, pipeVars>>

\* the model is invoked and gives the final answer
ModelAnswers(r) ==
    /\ runs[r].pc = "THINKING"
    /\ LET ctx == Append(runs[r].ctx, Msg(r, "ai", "answer"))
       IN  /\ runs' = [runs EXCEPT ![r].pc = "ANSWERED", ![r].ctx = ctx,
                                   ![r].steps = @ + 1]
           /\ store' = checkpoint(store, runs[r].exec, ctx)
    /\ UNCHANGED <<toolCallsMade, searchVars, runVars, pipeVars>>

\* the model invocation raises: the stream raises and run_query's except returns
ModelFails(r) ==
    /\ runs[r].pc = "THINKING"
    /\ runs' = [runs EXCEPT ![r].pc = "FAILED", ![r].steps = @ + 1]
    /\ UNCHANGED <<store, toolCallsMade, searchVars, runVars, pipeVars>>

(***************************************************************************)
(* Demo pipeline, step 4: fallback, truncation, translation, synthesis     *)
(***************************************************************************)
TTS_MAX_CHARS == 500

EMPTY_FALLBACK ==
    "Analysis complete. Please refer to the product label for detailed instructions."

RECURSIVE Rep(_, _)
\* c * n
Rep(c, n) ==
    IF n = 0 THEN ""
    ELSE IF n % 2 = 0 THEN LET h == Rep(c, n \div 2) IN h \o h
    ELSE c \o Rep(c, n - 1)

\* a text of n characters, all "a" but for a "b" at position p (none when p = 0)
Marked(n, p) ==
    IF p = 0 \/ p > n THEN Rep("a", n)
    ELSE Rep("a", p - 1) \o "b" \o Rep("a", n - p)

AnswerLengths == {0, 3, 499, 500, 501, 502, 640}

\* the texts step 3 can leave in response_text
Answers ==
    { Marked(n, p) : n \in AnswerLengths, p \in {0, 1, 500, 501} }
    \cup { Rep(" ", n) : n \in {2, 501} }
    \cup { Rep(" ", 3) \o Marked(600, 500) }

Whitespace == {" ", "\t", "\n", "\r"}

\* not str(text).strip()
IsBlank(text) == \A i \in 1..Len(text) : SubSeq(text, i, i) \in Whitespace

truncate_none(text) == text

\* str(response_text)[:500]
truncate(text) == SubSeq(text, 1, IF Len(text) < TTS_MAX_CHARS THEN Len(text) ELSE TTS_MAX_CHARS)

\* lines 176-180: the empty-response fallback, then the cutoff
normalize_response(text) ==
    truncate(IF text = "" \/ IsBlank(text) THEN EMPTY_FALLBACK ELSE text)

\* translate_text(text, source_lang, target_lang): some text in the target language
translate_text(text, target) ==
    { "", target \o ": short", text, target \o ": " \o text }

text_to_speech(text, language) == [text |-> text, language |-> language]

PipeInit ==
    /\ pipe \in [pc : {"step4"}, answer : Answers, response_text : {""}]
    /\ tts_text = [en |-> "", ur |-> "", sd |-> ""]
    /\ translateCalls = [ur |-> "", sd |-> ""]
    /\ ttsCalls = <<>>

IdlePipe ==
    /\ pipe = [pc |-> "idle", answer |-> "", response_text |-> ""]
    /\ tts_text = [en |-> "", ur |-> "", sd |-> ""]
    /\ translateCalls = [ur |-> "", sd |-> ""]
    /\ ttsCalls = <<>>

\* lines 176-180
NormalizeResponse ==
    /\ pipe.pc = "step4"
    /\ pipe' = [pipe EXCEPT !.pc = "translate",
                            !.response_text = normalize_response(pipe.answer)]
    /\ UNCHANGED <<tts_text, translateCalls, ttsCalls, searchVars, runVars, agentVars>>

\* lines 183-185
TranslateResponse ==
    /\ pipe.pc = "translate"
    /\ \E ur \in translate_text(pipe.response_text, "ur"),
          sd \in translate_text(pipe.response_text, "sd") :
          tts_text' = [en |-> pipe.response_text, ur |-> ur, sd |-> sd]
    /\ translateCalls' = [ur |-> pipe.response_text, sd |-> pipe.response_text]
    /\ pipe' = [pipe EXCEPT !.pc = "speak"]
    /\ UNCHANGED <<ttsCalls, searchVars, runVars, agentVars>>

\* lines 188-190
GenerateVoice ==
    /\ pipe.pc = "speak"
    /\ ttsCalls' = << text_to_speech(tts_text.en, "en"),
                      text_to_speech(tts_text.ur, "ur"),
                      text_to_speech(tts_text.sd, "sd") >>
    /\ pipe' = [pipe EXCEPT !.pc = "done"]
    /\ UNCHANGED <<tts_text, translateCalls, searchVars, runVars, agentVars>>

(***************************************************************************)
(* Specifications                                                          *)
(***************************************************************************)
IdleRun ==
    /\ stream = <<>>
    /\ idx = 0
    /\ response_text = ""
    /\ rq = [pc |-> "idle", via |-> "", ret |-> "", raised |-> FALSE]

SpecSearchInit == SearchInit /\ IdleRun /\ AgentInit /\ IdlePipe
SpecSearchNext == SearchCall
SpecSearch == SpecSearchInit /\ [][SpecSearchNext]_vars

SpecRunQueryInit == RunInit /\ SearchInit /\ AgentInit /\ IdlePipe
SpecRunQueryNext == RunQueryBegin \/ StreamYields \/ StreamRaises \/ StreamEnds
SpecRunQuery == SpecRunQueryInit /\ [][SpecRunQueryNext]_vars

SpecAgentInit == AgentInit /\ SearchInit /\ IdleRun /\ IdlePipe
SpecAgentNext ==
    \E r \in Runs :
        \/ RunQueryWithExecutor(r)
        \/ RunQueryWithoutExecutor(r)
        \/ ModelRequestsTool(r)
        \/ ToolExecutes(r)
        \/ ModelAnswers(r)
        \/ ModelFails(r)
SpecAgent == SpecAgentInit /\ [][SpecAgentNext]_vars

SpecPipelineInit == PipeInit /\ SearchInit /\ IdleRun /\ AgentInit
SpecPipelineNext == NormalizeResponse \/ TranslateResponse \/ GenerateVoice
SpecPipeline == SpecPipelineInit /\ [][SpecPipelineNext]_vars

(***************************************************************************)
(* Properties                                                              *)
(***************************************************************************)

\* a message authored by the assistant, in any of its representations: the
\* role is "assistant" or "ai", carried as role or as type, on an object or a dict
AssistantAuthored(m) ==
    \/ "role" \in DOMAIN m.f /\ m.f["role"] \in {"assistant", "ai"}
    \/ "type" \in DOMAIN m.f /\ m.f["type"] \in {"assistant", "ai"}

AnySnapshotMessage(st, P(_)) ==
    \E i \in 1..Len(st) : \E k \in 1..Len(st[i].messages) : P(st[i].messages[k])

Returned == rq.pc = "done" /\ rq.via = "return"

\* C1: when run_query has consumed a stream none of whose snapshots holds an
\* assistant-authored message, it returns exactly "No answer produced by agent.",
\* without raising, and never the empty string.
C1_NoAssistantGivesSentinel ==
    (Returned /\ ~AnySnapshotMessage(stream, AssistantAuthored))
        => /\ rq.ret = "No answer produced by agent."
           /\ rq.ret # ""
           /\ ~rq.raised

C1_Witness ==
    /\ Returned
    /\ Len(stream) = 2
    /\ stream[2].kind = "snap"
    /\ Len(stream[2].messages) >= 2
    /\ ~AnySnapshotMessage(stream, AssistantAuthored)
    /\ rq.ret = "No answer produced by agent."

NonEmptyAnswer(m) ==
    AssistantAuthored(m) /\ "content" \in DOMAIN m.f /\ m.f["content"] # ""

\* the content of the last assistant-authored message with content in the run
LastAnswer(st) ==
    LET ms == LastMessages(st)
        ks == { k \in 1..Len(ms) : NonEmptyAnswer(ms[k]) }
    IN  ms[CHOOSE k \in ks : \A j \in ks : j <= k].f["content"]

\* C2: when the stream holds an assistant-authored message with non-empty
\* content, run_query returns the content of the last such message of the run,
\* whichever representation of the assistant role the message uses.
C2_ReturnsLastAnswer ==
    (Returned /\ AnySnapshotMessage(stream, NonEmptyAnswer))
        => rq.ret = LastAnswer(stream)

\* C6: whatever error the provider raises, web_search_tool_fn does not raise and
\* returns "[Search Error]: " followed by the error's message.
C6_ProviderErrorBecomesText ==
    (nToolCalls > 0 /\ lastCall.res.kind = "raise")
        => /\ ~lastCall.raised
           /\ StartsWith(lastCall.ret, "[Search Error]: ")
           /\ lastCall.ret = "[Search Error]: " \o lastCall.res.msg

C6_Witness ==
    /\ nToolCalls > 0
    /\ lastCall.res.kind = "raise"
    /\ lastCall.res.msg = "401 Unauthorized"
    /\ lastCall.ret = "[Search Error]: 401 Unauthorized"

Failed == \E i \in 1..Len(stream) : stream[i].kind = "raise"

\* C7: when the model invocation fails during a run, the run ends there: the
\* failure is the last thing the stream was asked for (no retry), run_query does
\* not raise, and it returns the non-empty text "Agent execution error: <message>".
C7_ModelFailureEndsRun ==
    Failed
        => /\ stream[Len(stream)].kind = "raise"
           /\ Cardinality({ i \in 1..Len(stream) : stream[i].kind = "raise" }) = 1
           /\ rq.pc = "done"
           /\ ~rq.raised
           /\ rq.ret = "Agent execution error: " \o stream[Len(stream)].msg
           /\ rq.ret # ""

C7_Witness ==
    /\ Len(stream) = 2
    /\ stream[1].kind = "snap"
    /\ stream[2].kind = "raise"
    /\ stream[2].msg = "timeout"
    /\ rq.pc = "done"
    /\ rq.ret = "Agent execution error: timeout"

\* the hits the provider returned, whatever the container
HitsReturned(res) ==
    IF res.kind = "list" THEN res.val
    ELSE IF res.kind = "dict" /\ "results" \in DOMAIN res.val THEN res.val["results"]
    ELSE <<>>

RECURSIVE Blocks(_)
Blocks(hits) ==
    IF hits = <<>> THEN ""
    ELSE LET h == Head(hits)
             b == "URL: " \o (IF "url" \in DOMAIN h THEN h["url"] ELSE "")
                  \o "\nTitle: " \o (IF "title" \in DOMAIN h THEN h["title"] ELSE "")
                  \o "\nContent: " \o (IF "content" \in DOMAIN h THEN h["content"] ELSE "")
                  \o "\n---\n"
         IN  IF Len(hits) = 1 THEN b ELSE b \o "\n" \o Blocks(Tail(hits))

\* C9: when the provider returns one or more hits, in a dict or in a list,
\* web_search_tool_fn returns one URL/Title/Content block per hit, in the
\* provider's order, and not the zero-results sentinel.
C9_HitsAreFormatted ==
    (nToolCalls > 0 /\ HitsReturned(lastCall.res) # <<>>)
        => /\ lastCall.ret # "No relevant results found."
           /\ lastCall.ret = Blocks(HitsReturned(lastCall.res))

\* C10: every query, the empty one included, reaches the provider exactly once
\* per call, and a provider answer with zero results gives exactly
\* "No relevant results found.", not the empty string.
C10_AlwaysInvokesAndZeroSentinel ==
    nToolCalls > 0
        => /\ lastCall.sent = <<lastCall.query>>
           /\ nProviderCalls = nToolCalls
           /\ (lastCall.res.kind \in {"dict", "list", "none"}
                   /\ HitsReturned(lastCall.res) = <<>>)
               => (lastCall.ret = "No relevant results found." /\ lastCall.ret # "")

C10_Witness ==
    /\ nToolCalls > 0
    /\ lastCall.query = ""
    /\ lastCall.sent = <<"">>
    /\ lastCall.res.kind = "dict"
    /\ lastCall.res.val = [results |-> <<>>]
    /\ lastCall.ret = "No relevant results found."

IsPrefix(a, b) == Len(a) <= Len(b) /\ SubSeq(b, 1, Len(a)) = a

StepCap == 5

C4_RunsAreSerialized ==
    \A r1, r2 \in Runs :
        (r1 # r2 /\ InProgress(r1) /\ InProgress(r2))
            => \A k \in 1..Len(runs[r1].ctx) : runs[r1].ctx[k].by # r2

\* C5: a run started after another run under the same key reached ANSWERED
\* starts from a history that has all messages of that run as a prefix, also
\* when run_query is called without an agent executor.
C5_HistoryIsDurable ==
    \A r2 \in Runs :
        runs[r2].pc # "AWAITING_INPUT"
            => \A r1 \in runs[r2].after : IsPrefix(runs[r1].ctx, runs[r2].start)

SpeechTexts == { ttsCalls[i].text : i \in 1..Len(ttsCalls) }

\* C8 as stated: for an answer longer than 500 characters, the text of every
\* speech-synthesis call has length exactly 500 and is a prefix of the answer.
C8_EverySpeechTextIsPrefix ==
    (pipe.pc = "done" /\ Len(pipe.answer) > 500)
        => \A t \in SpeechTexts : Len(t) = 500 /\ IsPrefix(t, pipe.answer)

\* C8 amended: for an answer longer than 500 characters that is not all
\* whitespace, the English speech-synthesis text and the text handed to each
\* translation are the answer's first 500 characters; the Urdu and Sindhi
\* speech-synthesis texts are what the translation returned.
C8_TruncatedBeforeTranslation ==
    (pipe.pc = "done" /\ Len(pipe.answer) > 500 /\ ~IsBlank(pipe.answer))
        => /\ Len(ttsCalls) = 3
           /\ ttsCalls[1].language = "en"
           /\ Len(ttsCalls[1].text) = 500
           /\ IsPrefix(ttsCalls[1].text, pipe.answer)
           /\ translateCalls.ur = ttsCalls[1].text
           /\ translateCalls.sd = ttsCalls[1].text
           /\ ttsCalls[2] = [text |-> tts_text.ur, language |-> "ur"]
           /\ ttsCalls[3] = [text |-> tts_text.sd, language |-> "sd"]

C8_Witness ==
    /\ pipe.pc = "done"
    /\ Len(pipe.answer) = 640
    /\ SubSeq(pipe.answer, 500, 500) = "b"
    /\ Len(ttsCalls[1].text) = 500
    /\ SubSeq(ttsCalls[1].text, 500, 500) = "b"
    /\ Len(ttsCalls[2].text) # 500

====
